---- MODULE Spec2Model ----
(***************************************************************************)
(* Model of two programs of the repository:                                *)
(*   - package search (src/search/query.go): the parameter validator       *)
(*     checkParams, the four public search operations and doSearch;        *)
(*   - cmd/athome (src/cmd/athome/main.go, service.go and the older        *)
(*     layout of the same file set): the shutdown protocol of serve.       *)
(* Three next-state relations share the variables: SpecParams applies the  *)
(* pure function checkParams to drawn inputs, Spec runs invocations of the *)
(* search operations against an engine that answers nondeterministically,  *)
(* SpecServe / FairSpecServe run serve's main routine, its listener        *)
(* goroutine and the operating system's signals.                           *)
(***************************************************************************)
EXTENDS Integers, Sequences, FiniteSets, TLC

VARIABLES
    \* ---- package search: one caller invoking the operations in turn
    pc,           \* "idle" | "awaitingEngine" | "returned" | "exited" | "call" | "done"
    op,           \* operation of the current invocation
    origin,       \* who wired the invocation: "trusted" | "public" (not a parameter of the code)
    index,        \* parameter index
    q,            \* parameter q
    offset,       \* parameter offset (Go int)
    size,         \* parameter size (Go int)
    query,        \* the query map built in this invocation
    request,      \* the request handed to escli.Search in this invocation
    engineCalls,  \* calls of escli.Search in this invocation
    warnLogs,     \* slog.Warn("sending query") lines of this invocation
    fatalLogs,    \* log.Fatalf lines of this invocation
    reply,        \* what the engine answered in this invocation
    result,       \* (*EsSearchResponse, error) returned to the caller
    alive,        \* FALSE once the process has been terminated by log.Fatalf
    invocations,  \* invocations started so far
    \* ---- cmd/athome serve
    mainPc,       \* position of serve's main routine
    lsnPc,        \* position of the listener goroutine
    notified,     \* signal.Notify(exitSignals, SIGINT, SIGTERM) has run
    exitSignals,  \* the signals buffered in the channel exitSignals (capacity 1)
    httpd,        \* the HTTP server: "new" | "serving" | "closed" | "failed"
    shutdownCalls,\* calls of srv.Shutdown
    shutdownErr,  \* what the last srv.Shutdown returned
    branch,       \* branch of the select that was taken
    errChRecvs,   \* receives from errCh done by the main routine
    serveRet,     \* return value of serve
    proc,         \* "running" | "exited" (main returned) | "killed" (default signal action)
    sigSent       \* SIGINT/SIGTERM raised by the operating system so far

searchVars == <<pc, op, origin, index, q, offset, size, query, request,
                engineCalls, warnLogs, fatalLogs, reply, result, alive, invocations>>
serveVars  == <<mainPc, lsnPc, notified, exitSignals, httpd, shutdownCalls,
                shutdownErr, branch, errChRecvs, serveRet, proc, sigSent>>
vars       == <<searchVars, serveVars>>

----------------------------------------------------------------------------
(* Go's int.  The language fixes it at 32 or 64 bits; the 32-bit build is   *)
(* modelled, where additions wrap at the smallest magnitudes.               *)
MaxInt == 2147483647
MinInt == -MaxInt - 1

\* Limits of checkParams and the fixed page size of the typeahead query.
MaxSum        == 5000
MaxSize       == 1000
MaxOffset     == 1000
TypeaheadSize == 30

\* Capacity of the channel exitSignals of serve.
ExitSignalsCap == 1

\* Bounds of the model.
Delta          == 1   \* half-width of the windows of inputs around each boundary
MaxInvocations == 2   \* invocations of the search operations in one run
MaxSignals     == 3   \* exit signals the operating system raises in one run

\* offset + size as the machine computes it: two's complement wrap-around.
WrapAdd(a, b) ==
    IF a > 0 /\ b > 0 /\ a > MaxInt - b
    THEN (a - MaxInt - 1) + (b - MaxInt - 1)
    ELSE IF a < 0 /\ b < 0 /\ a < MinInt - b
    THEN (a + MaxInt + 1) + (b + MaxInt + 1)
    ELSE a + b

\* The inputs: windows around every boundary of the validator and of int.
Near(p) == {p} \cup {p + d : d \in {e \in 1..Delta : p <= MaxInt - e}}
               \cup {p - d : d \in {e \in 1..Delta : p >= MinInt + e}}
IntVals == UNION {Near(p) : p \in {MinInt, 0, MaxOffset, MaxSum - MaxSize, MaxSum, MaxInt}}

Texts   == {"cat", "*"}
Indexes == {"posts", "profiles"}
Origins == {"trusted", "public"}

ErrNil        == "nil"
ErrDisallowed == "disallowed size/offset parameters"
ErrDecode     == "decoding search response"

\* checkParams with >= where the code has > on offset
checkParamsOffsetGe(o, s) ==
    IF WrapAdd(o, s) > MaxSum \/ s > MaxSize \/ o >= MaxOffset \/ o < 0 \/ s < 0
    THEN ErrDisallowed ELSE ErrNil

\* checkParams without the clause size > 1000
checkParamsNoSizeClause(o, s) ==
    IF WrapAdd(o, s) > MaxSum \/ o > MaxOffset \/ o < 0 \/ s < 0
    THEN ErrDisallowed ELSE ErrNil

\* checkParams without the clauses offset < 0 and size < 0
checkParamsNoNegative(o, s) ==
    IF WrapAdd(o, s) > MaxSum \/ s > MaxSize \/ o > MaxOffset
    THEN ErrDisallowed ELSE ErrNil

checkParams(o, s) ==
    IF WrapAdd(o, s) > MaxSum \/ s > MaxSize \/ o > MaxOffset \/ o < 0 \/ s < 0
    THEN ErrDisallowed ELSE ErrNil

----------------------------------------------------------------------------
(* The query maps.  A map is a record of its top-level keys: keys is the    *)
(* set of keys present, sort the list of sort clauses, clause the kind of   *)
(* the "query" entry with its field(s), text and options.                   *)
NoQuery ==
    [keys |-> {}, sort |-> <<>>, clause |-> "none", fields |-> {}, text |-> "",
     should |-> {}, options |-> {}, from |-> 0, size |-> 0]

\* the post query with offset and size exchanged
PostsQuerySwapped(text, o, s) ==
    [keys |-> {"sort", "query", "size", "from"},
     sort |-> <<[field |-> "created_at", order |-> "desc"]>>,
     clause |-> "match", fields |-> {"everything"}, text |-> text,
     should |-> {}, options |-> {}, from |-> s, size |-> o]

PostsQuery(text, o, s) ==
    [keys |-> {"sort", "query", "size", "from"},
     sort |-> <<[field |-> "created_at", order |-> "desc"]>>,
     clause |-> "match", fields |-> {"everything"}, text |-> text,
     should |-> {}, options |-> {}, from |-> o, size |-> s]

ProfilesQuery(text, o, s) ==
    [keys |-> {"query", "size", "from"},
     sort |-> <<>>,
     clause |-> "bool.must.match", fields |-> {"everything"}, text |-> text,
     should |-> {"has_avatar", "has_banner"}, options |-> {"boost=1.0"},
     from |-> o, size |-> s]

TypeaheadQuery(text) ==
    [keys |-> {"query", "size"},
     sort |-> <<>>,
     clause |-> "multi_match.bool_prefix",
     fields |-> {"typeahead", "typeahead._2gram", "typeahead._3gram"}, text |-> text,
     should |-> {}, options |-> {}, from |-> 0, size |-> TypeaheadSize]

GenericQuery(text) ==
    [keys |-> {"query"},
     sort |-> <<>>,
     clause |-> "query_string", fields |-> {"everything"}, text |-> text,
     should |-> {},
     options |-> {"default_operator=and", "analyze_wildcard=true",
                  "allow_leading_wildcard=false", "lenient=true"},
     from |-> 0, size |-> 0]

NoRequest == [sent |-> FALSE, index |-> "", body |-> NoQuery, trackTotalHits |-> FALSE]

\* (*EsSearchResponse, error)
NilResponse == [nil |-> TRUE, took |-> 0, timedOut |-> FALSE, hits |-> <<>>]
NoResult    == [returned |-> FALSE, resp |-> NilResponse, err |-> ErrNil]

\* What escli.Search can come back with: an error, or a response whose body
\* is JSON of the EsSearchResponse shape or is not.  Scores are in tenths.
NoReply == [kind |-> "none", shape |-> "", took |-> 0, timedOut |-> FALSE, hits |-> <<>>]
Replies ==
    {[kind |-> "error", shape |-> "", took |-> 0, timedOut |-> FALSE, hits |-> <<>>]}
    \cup {[kind |-> "body", shape |-> "garbage", took |-> 0, timedOut |-> FALSE, hits |-> <<>>]}
    \cup {[kind |-> "body", shape |-> "response", took |-> 3, timedOut |-> t, hits |-> h] :
             t \in BOOLEAN, h \in {<<>>, <<10, 5>>}}

\* json.NewDecoder(res.Body).Decode(&out)
DecodeFails(r) == r.shape # "response"
Decode(r) == [nil |-> FALSE, took |-> r.took, timedOut |-> r.timedOut, hits |-> r.hits]

----------------------------------------------------------------------------
(* Package search.                                                          *)

SearchIdle ==
    /\ pc = "idle" /\ op = "none" /\ origin = "trusted" /\ index = "" /\ q = ""
    /\ offset = 0 /\ size = 0 /\ query = NoQuery /\ request = NoRequest
    /\ engineCalls = 0 /\ warnLogs = 0 /\ fatalLogs = 0 /\ reply = NoReply
    /\ result = NoResult /\ alive = TRUE /\ invocations = 0

ServeIdle ==
    /\ mainPc = "init" /\ lsnPc = "none" /\ notified = FALSE /\ exitSignals = <<>>
    /\ httpd = "new" /\ shutdownCalls = 0 /\ shutdownErr = "none" /\ branch = "none"
    /\ errChRecvs = 0 /\ serveRet = "none" /\ proc = "running" /\ sigSent = 0

\* The caller enters an operation with its arguments.
Enter(name, who, i, text, o, s) ==
    /\ pc = "idle" /\ alive /\ invocations < MaxInvocations
    /\ op' = name /\ origin' = who /\ index' = i /\ q' = text
    /\ offset' = o /\ size' = s
    /\ invocations' = invocations + 1
    /\ UNCHANGED <<fatalLogs, reply, alive>>

\* return nil, err before anything is built
ReturnError(e) ==
    /\ result' = [returned |-> TRUE, resp |-> NilResponse, err |-> e]
    /\ pc' = "returned"
    /\ UNCHANGED <<query, request, engineCalls, warnLogs>>

\* doSearch up to the call of escli.Search: the query is encoded (encoding a
\* map of strings, numbers and booleans cannot fail), logged and sent, with
\* total-hit tracking off.
doSearch(i, qry) ==
    /\ query' = qry
    /\ warnLogs' = warnLogs + 1
    /\ request' = [sent |-> TRUE, index |-> i, body |-> qry, trackTotalHits |-> FALSE]
    /\ engineCalls' = engineCalls + 1
    /\ pc' = "awaitingEngine"
    /\ UNCHANGED result

\* DoSearchPosts without the call of checkParams
DoSearchPostsUnchecked(who, i, text, o, s) ==
    /\ Enter("Posts", who, i, text, o, s)
    /\ doSearch(i, PostsQuery(text, o, s))

DoSearchPosts(who, i, text, o, s) ==
    /\ Enter("Posts", who, i, text, o, s)
    /\ IF checkParams(o, s) # ErrNil
       THEN ReturnError(checkParams(o, s))
       ELSE doSearch(i, PostsQuery(text, o, s))

DoSearchProfiles(who, i, text, o, s) ==
    /\ Enter("Profiles", who, i, text, o, s)
    /\ IF checkParams(o, s) # ErrNil
       THEN ReturnError(checkParams(o, s))
       ELSE doSearch(i, ProfilesQuery(text, o, s))

DoSearchProfilesTypeahead(who, i, text) ==
    /\ Enter("Typeahead", who, i, text, 0, 0)
    /\ doSearch(i, TypeaheadQuery(text))

DoSearchGeneric(who, i, text) ==
    /\ Enter("Generic", who, i, text, 0, 0)
    /\ doSearch(i, GenericQuery(text))

\* doSearchResult calling the engine a second time after a failure
doSearchResultRetry(r) ==
    /\ pc = "awaitingEngine"
    /\ reply' = r
    /\ IF (r.kind = "error" \/ DecodeFails(r)) /\ engineCalls < 2
       THEN /\ engineCalls' = engineCalls + 1
            /\ UNCHANGED <<pc, result, fatalLogs, alive>>
       ELSE IF r.kind = "error"
       THEN /\ fatalLogs' = fatalLogs + 1 /\ alive' = FALSE /\ pc' = "exited"
            /\ UNCHANGED <<result, engineCalls>>
       ELSE IF DecodeFails(r)
       THEN /\ result' = [returned |-> TRUE, resp |-> NilResponse, err |-> ErrDecode]
            /\ pc' = "returned"
            /\ UNCHANGED <<fatalLogs, alive, engineCalls>>
       ELSE /\ result' = [returned |-> TRUE, resp |-> Decode(r), err |-> ErrNil]
            /\ pc' = "returned"
            /\ UNCHANGED <<fatalLogs, alive, engineCalls>>
    /\ UNCHANGED <<op, origin, index, q, offset, size, query, request, warnLogs, invocations>>

\* doSearchResult handing out whatever was decoded when decoding fails
doSearchResultPartial(r) ==
    /\ pc = "awaitingEngine"
    /\ reply' = r
    /\ IF r.kind = "error"
       THEN /\ fatalLogs' = fatalLogs + 1 /\ alive' = FALSE /\ pc' = "exited"
            /\ UNCHANGED result
       ELSE /\ result' = [returned |-> TRUE, resp |-> Decode(r), err |-> ErrNil]
            /\ pc' = "returned"
            /\ UNCHANGED <<fatalLogs, alive>>
    /\ UNCHANGED <<op, origin, index, q, offset, size, query, request,
                   engineCalls, warnLogs, invocations>>

\* doSearch from the return of escli.Search on: an error ends the process
\* (log.Fatalf), a body that does not decode is returned as an error, a body
\* that decodes is returned.
doSearchResult(r) ==
    /\ pc = "awaitingEngine"
    /\ reply' = r
    /\ IF r.kind = "error"
       THEN /\ fatalLogs' = fatalLogs + 1 /\ alive' = FALSE /\ pc' = "exited"
            /\ UNCHANGED result
       ELSE IF DecodeFails(r)
       THEN /\ result' = [returned |-> TRUE, resp |-> NilResponse, err |-> ErrDecode]
            /\ pc' = "returned"
            /\ UNCHANGED <<fatalLogs, alive>>
       ELSE /\ result' = [returned |-> TRUE, resp |-> Decode(r), err |-> ErrNil]
            /\ pc' = "returned"
            /\ UNCHANGED <<fatalLogs, alive>>
    /\ UNCHANGED <<op, origin, index, q, offset, size, query, request,
                   engineCalls, warnLogs, invocations>>

\* The caller has its result; everything of the invocation is discarded.
NextInvocation ==
    /\ pc = "returned" /\ alive
    /\ pc' = "idle" /\ op' = "none" /\ origin' = "trusted" /\ index' = "" /\ q' = ""
    /\ offset' = 0 /\ size' = 0 /\ query' = NoQuery /\ request' = NoRequest
    /\ engineCalls' = 0 /\ warnLogs' = 0 /\ fatalLogs' = 0 /\ reply' = NoReply
    /\ result' = NoResult
    /\ UNCHANGED <<alive, invocations>>

Init == SearchIdle /\ ServeIdle

\* The caller's choice of operation and arguments, the engine's answer, the
\* caller going on.  (pc = "idle" stands before the quantifiers only to spare
\* enumerating arguments in states where no operation can be entered.)
Next ==
    \/ /\ pc = "idle"
       /\ \E who \in Origins, i \in Indexes, text \in Texts, o \in IntVals, s \in IntVals :
             DoSearchPosts(who, i, text, o, s)
       /\ UNCHANGED serveVars
    \/ /\ pc = "idle"
       /\ \E who \in Origins, i \in Indexes, text \in Texts, o \in IntVals, s \in IntVals :
             DoSearchProfiles(who, i, text, o, s)
       /\ UNCHANGED serveVars
    \/ \E who \in Origins, i \in Indexes, text \in Texts :
          DoSearchProfilesTypeahead(who, i, text) /\ UNCHANGED serveVars
    \/ \E who \in Origins, i \in Indexes, text \in Texts :
          DoSearchGeneric(who, i, text) /\ UNCHANGED serveVars
    \/ \E r \in Replies : doSearchResult(r) /\ UNCHANGED serveVars
    \/ NextInvocation /\ UNCHANGED serveVars

Spec == Init /\ [][Next]_vars

----------------------------------------------------------------------------
(* checkParams as a pure function: the inputs are drawn, then it is called. *)

InitParams ==
    /\ ServeIdle
    /\ pc = "call" /\ op = "checkParams" /\ origin = "trusted" /\ index = "" /\ q = ""
    /\ offset \in IntVals /\ size \in IntVals
    /\ query = NoQuery /\ request = NoRequest
    /\ engineCalls = 0 /\ warnLogs = 0 /\ fatalLogs = 0 /\ reply = NoReply
    /\ result = NoResult /\ alive = TRUE /\ invocations = 0

CallCheckParams ==
    /\ pc = "call"
    /\ result' = [returned |-> TRUE, resp |-> NilResponse, err |-> checkParams(offset, size)]
    /\ pc' = "done"
    /\ UNCHANGED <<op, origin, index, q, offset, size, query, request, engineCalls,
                   warnLogs, fatalLogs, reply, alive, invocations>>
    /\ UNCHANGED serveVars

NextParams == CallCheckParams

SpecParams == InitParams /\ [][NextParams]_vars

----------------------------------------------------------------------------
(* cmd/athome: serve from the creation of errCh on.  The main routine, the  *)
(* listener goroutine and the operating system take steps in any order.     *)

InitServe ==
    /\ ServeIdle
    /\ pc = "idle" /\ op = "none" /\ origin = "trusted" /\ index = "" /\ q = ""
    /\ offset = 0 /\ size = 0 /\ query = NoQuery /\ request = NoRequest
    /\ engineCalls = 0 /\ warnLogs = 0 /\ fatalLogs = 0 /\ reply = NoReply
    /\ result = NoResult /\ alive = TRUE /\ invocations = 0

\* errCh := make(chan error); go func() { ... }()
StartListener ==
    /\ proc = "running" /\ mainPc = "init"
    /\ lsnPc' = "listening"
    /\ mainPc' = "notify"
    /\ UNCHANGED <<notified, exitSignals, httpd, shutdownCalls, shutdownErr, branch,
                   errChRecvs, serveRet, proc, sigSent>>

\* exitSignals := make(chan os.Signal, 1); signal.Notify(exitSignals, ...)
Notify ==
    /\ proc = "running" /\ mainPc = "notify"
    /\ notified' = TRUE
    /\ mainPc' = "select"
    /\ UNCHANGED <<lsnPc, exitSignals, httpd, shutdownCalls, shutdownErr, branch,
                   errChRecvs, serveRet, proc, sigSent>>

\* case sig := <-exitSignals
SelectSignal ==
    /\ proc = "running" /\ mainPc = "select"
    /\ exitSignals # <<>>
    /\ exitSignals' = Tail(exitSignals)
    /\ branch' = "signal"
    /\ mainPc' = "shutdown"
    /\ UNCHANGED <<lsnPc, notified, httpd, shutdownCalls, shutdownErr, errChRecvs,
                   serveRet, proc, sigSent>>

\* srv.Shutdown() followed by a wait for the listener goroutine's error
ShutdownAndDrain ==
    /\ proc = "running" /\ mainPc = "shutdown"
    /\ lsnPc = "sending"
    /\ shutdownCalls' = shutdownCalls + 1
    /\ \E e \in {"nil", "context deadline exceeded"} : shutdownErr' = e
    /\ httpd' = IF httpd \in {"new", "serving"} THEN "closed" ELSE httpd
    /\ lsnPc' = "done"
    /\ errChRecvs' = errChRecvs + 1
    /\ mainPc' = "return"
    /\ UNCHANGED <<notified, exitSignals, branch, serveRet, proc, sigSent>>

\* srv.Shutdown(): the server stops within the 10 s of the context or the
\* call returns the context's error; either way the error is only logged.
\* From the call on ListenAndServe returns http.ErrServerClosed.
Shutdown ==
    /\ proc = "running" /\ mainPc = "shutdown"
    /\ shutdownCalls' = shutdownCalls + 1
    /\ \E e \in {"nil", "context deadline exceeded"} : shutdownErr' = e
    /\ httpd' = IF httpd \in {"new", "serving"} THEN "closed" ELSE httpd
    /\ mainPc' = "return"
    /\ UNCHANGED <<lsnPc, notified, exitSignals, branch, errChRecvs, serveRet, proc, sigSent>>

\* case err := <-errCh: the rendezvous with the goroutine's errCh <- err
SelectErr ==
    /\ proc = "running" /\ mainPc = "select"
    /\ lsnPc = "sending"
    /\ lsnPc' = "done"
    /\ errChRecvs' = errChRecvs + 1
    /\ branch' = "listener"
    /\ mainPc' = "return"
    /\ UNCHANGED <<notified, exitSignals, httpd, shutdownCalls, shutdownErr, serveRet,
                   proc, sigSent>>

\* return nil: run and main return after it and the process ends, whatever
\* the listener goroutine is doing.
ReturnNil ==
    /\ proc = "running" /\ mainPc = "return"
    /\ serveRet' = "nil"
    /\ mainPc' = "returned"
    /\ proc' = "exited"
    /\ UNCHANGED <<lsnPc, notified, exitSignals, httpd, shutdownCalls, shutdownErr,
                   branch, errChRecvs, sigSent>>

\* The goroutine: ListenAndServe has bound the address and serves.
ListenerServes ==
    /\ proc = "running" /\ lsnPc = "listening" /\ httpd = "new"
    /\ httpd' = "serving"
    /\ UNCHANGED <<mainPc, lsnPc, notified, exitSignals, shutdownCalls, shutdownErr,
                   branch, errChRecvs, serveRet, proc, sigSent>>

\* ListenAndServe returns an error of its own (the address cannot be bound,
\* accepting fails); the goroutine goes to errCh <- err and blocks there.
ListenerFails ==
    /\ proc = "running" /\ lsnPc = "listening" /\ httpd \in {"new", "serving"}
    /\ httpd' = "failed"
    /\ lsnPc' = "sending"
    /\ UNCHANGED <<mainPc, notified, exitSignals, shutdownCalls, shutdownErr, branch,
                   errChRecvs, serveRet, proc, sigSent>>

\* ListenAndServe returns http.ErrServerClosed after Shutdown; the goroutine
\* goes to errCh <- err and blocks there.
ListenerClosed ==
    /\ proc = "running" /\ lsnPc = "listening" /\ httpd = "closed"
    /\ lsnPc' = "sending"
    /\ UNCHANGED <<mainPc, notified, exitSignals, httpd, shutdownCalls, shutdownErr,
                   branch, errChRecvs, serveRet, proc, sigSent>>

\* The operating system raises SIGINT or SIGTERM.  Before signal.Notify the
\* runtime's default action ends the process; after it the signal is put in
\* exitSignals, or dropped when the buffer of one is full.
Signal(sig) ==
    /\ proc = "running" /\ sigSent < MaxSignals
    /\ sigSent' = sigSent + 1
    /\ IF ~notified
       THEN /\ proc' = "killed"
            /\ UNCHANGED exitSignals
       ELSE /\ exitSignals' = IF Len(exitSignals) < ExitSignalsCap
                              THEN Append(exitSignals, sig) ELSE exitSignals
            /\ UNCHANGED proc
    /\ UNCHANGED <<mainPc, lsnPc, notified, httpd, shutdownCalls, shutdownErr, branch,
                   errChRecvs, serveRet>>

MainStep ==
    \/ StartListener
    \/ Notify
    \/ SelectSignal
    \/ Shutdown
    \/ SelectErr
    \/ ReturnNil

NextServe ==
    \/ StartListener /\ UNCHANGED searchVars
    \/ Notify /\ UNCHANGED searchVars
    \/ SelectSignal /\ UNCHANGED searchVars
    \/ Shutdown /\ UNCHANGED searchVars
    \/ SelectErr /\ UNCHANGED searchVars
    \/ ReturnNil /\ UNCHANGED searchVars
    \/ ListenerServes /\ UNCHANGED searchVars
    \/ ListenerFails /\ UNCHANGED searchVars
    \/ ListenerClosed /\ UNCHANGED searchVars
    \/ \E sig \in {"SIGINT", "SIGTERM"} : Signal(sig) /\ UNCHANGED searchVars

SpecServe == InitServe /\ [][NextServe]_vars

\* A goroutine that can run is run: the main routine is never starved.
FairSpecServe == SpecServe /\ WF_vars(MainStep /\ UNCHANGED searchVars)

----------------------------------------------------------------------------
(* The claims.  The numbers in them are the claims' own, not the model's.   *)

\* a + b <= l over the integers, for l >= 0, without leaving the machine range
SumAtMost(a, b, l) ==
    IF b >= 0 THEN a <= l - b
    ELSE IF a < 0 THEN TRUE
    ELSE a + b <= l

InRanges(o, s) == 0 <= o /\ o <= 1000 /\ 0 <= s /\ s <= 1000

\* C1: for every integer pair (offset, size), checkParams succeeds if and
\* only if offset+size <= 5000, size <= 1000, offset <= 1000, offset >= 0 and
\* size >= 0 (the sum taken over the integers); every other pair is an error.
C1_ValidatorExact ==
    pc = "done" =>
        (result.err = ErrNil <=>
            /\ SumAtMost(offset, size, 5000)
            /\ size <= 1000 /\ offset <= 1000 /\ offset >= 0 /\ size >= 0)

\* the boundary (1000, 0) has been validated and accepted
C1_Witness == pc = "done" /\ offset = 1000 /\ size = 0 /\ result.err = ErrNil

\* C2 as stated: (1000, 4001), sum 5001, fails and (1000, 4000), sum 5000,
\* succeeds.
C2_Original ==
    pc = "done" =>
        /\ (offset = 1000 /\ size = 4001 => result.err # ErrNil)
        /\ (offset = 1000 /\ size = 4000 => result.err = ErrNil)

\* C2 amended: (1000, 4001) fails and (1000, 4000) fails as well, size being
\* over 1000; the sum of 5000 is not a boundary of its own.
C2_BothRejected ==
    pc = "done" /\ offset = 1000 /\ size \in {4000, 4001} => result.err = ErrDisallowed

\* (1000, 4000), whose sum is exactly 5000, has been validated and rejected
C2_Witness == pc = "done" /\ offset = 1000 /\ size = 4000 /\ result.err = ErrDisallowed

\* C3: when checkParams rejects (offset, size), DoSearchPosts and
\* DoSearchProfiles return an error and no response, and the invocation has
\* built no query, logged nothing and sent nothing to the engine.
C3_RejectedBeforeAnyWork ==
    op \in {"Posts", "Profiles"} /\ pc # "idle" /\ checkParams(offset, size) # ErrNil =>
        /\ pc = "returned" /\ alive
        /\ result.returned /\ result.resp.nil /\ result.err = ErrDisallowed
        /\ query = NoQuery /\ ~request.sent
        /\ warnLogs = 0 /\ fatalLogs = 0 /\ engineCalls = 0 /\ reply = NoReply

\* DoSearchPosts has returned the validation error for offset = 1001
C3_Witness ==
    op = "Posts" /\ pc = "returned" /\ offset = 1001 /\ size = 0
    /\ result.err = ErrDisallowed /\ engineCalls = 0

\* C4 as stated: when the call to the engine fails, the operation returns an
\* error to its caller and the process stays alive.
C4_TransportErrorReturned ==
    reply.kind = "error" =>
        /\ alive
        /\ pc = "returned" /\ result.returned /\ result.resp.nil /\ result.err # ErrNil

\* C5: when the engine answers with a body that does not decode, the
\* operation returns an error and no response, the process lives on, and the
\* outcome differs from that of a failed engine call and from that of a
\* validation rejection.
C5_DecodeErrorReturned ==
    /\ reply.kind = "body" /\ reply.shape # "response" =>
          /\ pc = "returned" /\ alive /\ fatalLogs = 0
          /\ result.returned /\ result.resp = NilResponse /\ result.err = ErrDecode
    /\ reply.kind = "error" => ~(result.returned /\ result.err = ErrDecode)
    /\ pc = "returned" /\ reply.kind = "none" => result.err = ErrDisallowed
    /\ ErrDecode # ErrDisallowed

\* an undecodable body has been answered to an invocation and reported
C5_Witness ==
    pc = "returned" /\ reply.kind = "body" /\ reply.shape = "garbage"
    /\ result.err = ErrDecode /\ engineCalls = 1

\* C6 as stated: an invocation of DoSearchGeneric wired from a public caller
\* is rejected by this layer before any query is sent to the engine.
C6_GenericRejectsPublic ==
    op = "Generic" /\ origin = "public" => engineCalls = 0 /\ ~request.sent

\* C7: the engine is called at most once in an invocation; an invocation that
\* passes validation or needs none has called it exactly once when it ends;
\* a failed call or an undecodable answer ends the invocation with the
\* failure reported once and without a second call.
C7_NoRetries ==
    /\ engineCalls <= 1
    /\ pc = "awaitingEngine" => engineCalls = 1
    /\ pc \in {"returned", "exited"}
         /\ (op \in {"Typeahead", "Generic"} \/ InRanges(offset, size)) => engineCalls = 1
    /\ reply.kind = "error" =>
          pc = "exited" /\ fatalLogs = 1 /\ ~result.returned /\ engineCalls = 1
    /\ reply.kind = "body" /\ reply.shape # "response" =>
          pc = "returned" /\ fatalLogs = 0 /\ result.err = ErrDecode /\ engineCalls = 1

\* the engine call of an invocation has failed and the invocation has ended
C7_Witness == reply.kind = "error" /\ pc = "exited" /\ engineCalls = 1 /\ fatalLogs = 1

\* C8: the query DoSearchPosts sends sorts on created_at descending and on
\* nothing else (no _score sort), matches q against the field everything and
\* has from = offset and size = size.
C8_PostsQueryShape ==
    op = "Posts" /\ request.sent =>
        /\ "sort" \in request.body.keys
        /\ request.body.sort = <<[field |-> "created_at", order |-> "desc"]>>
        /\ \A k \in DOMAIN request.body.sort : request.body.sort[k].field # "_score"
        /\ "query" \in request.body.keys
        /\ request.body.clause = "match"
        /\ request.body.fields = {"everything"}
        /\ request.body.text = q
        /\ {"from", "size"} \subseteq request.body.keys
        /\ request.body.from = offset
        /\ request.body.size = size

\* a post query for "cat" with offset 0 and size 1 is at the engine
C8_Witness ==
    op = "Posts" /\ pc = "awaitingEngine" /\ request.sent
    /\ q = "cat" /\ offset = 0 /\ size = 1

\* C9: DoSearchPosts and DoSearchProfiles reject (offset, size) exactly when
\* one of the four range checks 0 <= offset <= 1000, 0 <= size <= 1000 fails,
\* pairs whose machine sum wraps around included, so the sum clause decides
\* nothing; every request of theirs at the engine has from + size <= 2000.
C9_SumClauseNeverDecides ==
    /\ op \in {"Posts", "Profiles"} /\ pc # "idle" =>
          ((result.returned /\ result.err = ErrDisallowed /\ ~request.sent)
              <=> ~InRanges(offset, size))
    /\ op \in {"Posts", "Profiles"} /\ request.sent =>
          /\ InRanges(request.body.from, request.body.size)
          /\ request.body.from + request.body.size <= 2000

\* a pair whose machine sum wraps around to -2 has been rejected
C9_Witness ==
    op = "Posts" /\ pc = "returned" /\ offset = 2147483647 /\ size = 2147483647
    /\ WrapAdd(offset, size) = -2 /\ result.err = ErrDisallowed

\* The main routine has something to select: a signal is buffered in
\* exitSignals or the listener goroutine stands at errCh <- err.
SelectReady == exitSignals # <<>> \/ lsnPc = "sending"

\* The shutdown discipline of serve: Shutdown is called once on the signal
\* branch and never on the listener-error branch, the main routine receives
\* from errCh only in the select, and what serve returns is nil.
ShutdownDiscipline ==
    /\ shutdownCalls <= 1
    /\ branch = "signal" /\ mainPc \in {"return", "returned"} => shutdownCalls = 1
    /\ branch = "listener" => shutdownCalls = 0 /\ errChRecvs = 1
    /\ branch = "signal" => errChRecvs = 0
    /\ mainPc = "returned" => serveRet = "nil" /\ branch \in {"signal", "listener"}

\* C10 as stated: once the listener goroutine has been started, an exit
\* signal the operating system delivers never leaves serve unable to return
\* nil.
C10_Original ==
    lsnPc # "none" /\ sigSent > 0 => proc # "killed"

\* C10 amended: once serve has registered exitSignals with signal.Notify,
\* its main routine returns nil in every execution in which an exit signal
\* is delivered or the listener goroutine reports an error on errCh, both
\* and in either order included; Shutdown is called exactly once on the
\* signal branch and never on the listener-error branch, and after the
\* signal branch the main routine neither waits for the goroutine nor
\* receives from errCh.
C10_ReturnsNil ==
    /\ []ShutdownDiscipline
    /\ (notified /\ SelectReady) ~> (mainPc = "returned" /\ serveRet = "nil")

\* both happened: the listener failed and stands at errCh <- err, the signal
\* branch was taken, and serve has returned without receiving the error
C10_Witness ==
    /\ mainPc = "returned" /\ serveRet = "nil" /\ branch = "signal"
    /\ httpd = "failed" /\ lsnPc = "sending" /\ shutdownCalls = 1 /\ errChRecvs = 0

====
